---- MODULE Spec2Model ----
(***************************************************************************)
(* Model of src/ChatGPT-Assistant/assistant.py: the Discord bot that maps  *)
(* each channel to an OpenAI thread, launches a run for every qualifying   *)
(* message, polls the run and replies with the assistant's text.           *)
(*                                                                         *)
(* on_message is a coroutine on a single asyncio event loop.  Everything   *)
(* between two awaits runs without interleaving, so each action below is   *)
(* one such stretch of code; the awaits are typing(), sleep(1) and         *)
(* message.reply().                                                        *)
(***************************************************************************)
EXTENDS Integers, Sequences, FiniteSets, TLC

\* ---------------------------------------------------------------- bounds
NumMsgs     == 2      \* inbound messages delivered in one behaviour
NumChannels == 2      \* distinct Discord channels
MaxPolls    == 4      \* polls counted exactly; beyond this the counters saturate
MaxSegs     == 2      \* text segments of one assistant message
MaxRetries  == 3      \* largest Retries value config.ini of hcping.py holds
MaxRows     == 2      \* data rows of the workbook vault_migrate.py reads

Msgs     == 1..NumMsgs
Channels == 1..NumChannels

\* ------------------------------------------------------ program constants
max_retries == 1      \* default argument of poll_run_status_and_handle_response
SLEEP_SECONDS == 1    \* the argument of asyncio.sleep in the poll loop

\* ----------------------------------------------------------------- values
None     == <<>>                 \* Python None / an absent optional
Some(v)  == <<v>>
NoThread == 0

Statuses    == {"queued", "in_progress", "completed", "failed", "expired",
                "cancelled", "requires_action"}
\* an author: is its id ADMIN_USER_ID, and which of DM_ROLE_ID and
\* USERS_ROLE_ID are among its role ids (none can be when the id is unset)
Authors     == [admin : BOOLEAN, roles : SUBSET {"DM_ROLE_ID", "USERS_ROLE_ID"}]
Errors      == {"APIError", "IndexError", "HTTPException", "UnboundLocalError"}
\* the calls that may raise
Calls       == {"threads.create", "runs.create", "typing", "while", "runs.retrieve",
                "runs.cancel", "messages.list", "content[0]", "reply"}

SegmentText(i) == IF i % 2 = 1 THEN "Hello" ELSE "world"
\* the content lists the remote API may give an assistant message
Contents == {[i \in 1..n |-> SegmentText(i)] : n \in 0..MaxSegs}

Min(S) == CHOOSE x \in S : \A y \in S : x <= y

\* a counter that is exact up to MaxPolls and then stays at MaxPolls + 1
Bump(n) == IF n <= MaxPolls THEN n + 1 ELSE n

VARIABLES
    thread_mapping,   \* rows of table thread_mapping
    threads,          \* remote API: thread id -> message list, newest first
    pc,               \* per message: where its on_message coroutine is
    inbox,            \* per message: the dispatched event on_message has yet to run for
    channel,          \* per message: message.channel.id once past the gate
    thread_id,        \* per message: on_message's thread_id local
    retries,          \* per message: the poller's retries local
    run_status,       \* per message: the poller's run_status.status local
    seen,             \* per message: statuses returned by its retrieve calls
    calls,            \* per message: remote API calls issued while handling it
    sleeps,           \* per message: completed asyncio.sleep(1) calls
    response,         \* per message: what the poller returned
    fault,            \* per message: the call that raised while handling it
    outcome,          \* per message: how on_message ended
    sent,             \* per message: the text sent with message.reply
    interval,         \* per message: seconds of its latest asyncio.sleep, 0 before the first
    hc,               \* the health-check script hcping.py: its position and locals
    vm                \* the migration script vault_migrate.py: its position and locals

\* the variables of assistant.py
assistant_vars == <<thread_mapping, threads, pc, inbox, channel, thread_id,
                    retries, run_status, seen, calls, sleeps, response, fault,
                    outcome, sent, interval>>

vars == <<thread_mapping, threads, pc, inbox, channel, thread_id, retries,
          run_status, seen, calls, sleeps, response, fault, outcome, sent,
          interval, hc, vm>>

NoCalls == [threads_create |-> 0, runs_create |-> 0, retrieve |-> 0,
            cancel |-> 0, list |-> 0, reply |-> 0]

\* the events the front end may dispatch
Events == [channel : Channels, bot : BOOLEAN, empty : BOOLEAN, is_dm : BOOLEAN,
           mentioned : BOOLEAN, author : Authors]

\* hcping.py and vault_migrate.py are separate scripts: a script is not
\* running while another program is modelled
NotRunning == [pc |-> "off"]

\* the bot after construction: an empty table, no remote thread, no message
AssistantInit ==
    /\ thread_mapping = {}
    /\ threads = <<>>
    /\ pc = [m \in Msgs |-> "undelivered"]
    /\ inbox = [m \in Msgs |-> None]
    /\ channel = [m \in Msgs |-> 0]
    /\ thread_id = [m \in Msgs |-> NoThread]
    /\ retries = [m \in Msgs |-> 0]
    /\ run_status = [m \in Msgs |-> "none"]
    /\ seen = [m \in Msgs |-> <<>>]
    /\ calls = [m \in Msgs |-> NoCalls]
    /\ sleeps = [m \in Msgs |-> 0]
    /\ response = [m \in Msgs |-> None]
    /\ fault = [m \in Msgs |-> "none"]
    /\ outcome = [m \in Msgs |-> "pending"]
    /\ sent = [m \in Msgs |-> None]
    /\ interval = [m \in Msgs |-> 0]

Init == AssistantInit /\ hc = NotRunning /\ vm = NotRunning

\* ------------------------------------------------------------ get_user_role
get_user_role(member) ==
    IF member.admin THEN "admin"
    ELSE IF "DM_ROLE_ID" \in member.roles THEN "dm_user"
    ELSE IF "USERS_ROLE_ID" \in member.roles THEN "user"
    ELSE "unknown"

\* mutant: a mention is enough in a channel, whatever the author's role
Authorised_AnyMention(is_dm, mentioned, user_role) ==
    \/ is_dm /\ (user_role = "admin" \/ user_role = "dm_user")
    \/ ~is_dm /\ mentioned

\* the authorisation gate of on_message: does the handler go on?
Authorised(is_dm, mentioned, user_role) ==
    \/ is_dm /\ (user_role = "admin" \/ user_role = "dm_user")
    \/ ~is_dm /\ mentioned /\ user_role # "unknown"

should_respond(is_dm, mentioned, user_role) ==
    \/ mentioned /\ ~is_dm
    \/ is_dm /\ user_role \in {"admin", "user"}

\* ------------------------------------------------- get_or_create_thread_id
\* mutant: the WHERE clause never matches (channel id compared as another type)
SelectRows_NoMatch(table, channel_id) ==
    {r \in table : FALSE}

\* SELECT openai_thread_id ... WHERE discord_channel_id = ?
SelectRows(table, channel_id) ==
    {r \in table : r.discord_channel_id = channel_id}

\* mutant: the fetched row is never taken as a hit
Found_Never(result) == FALSE

\* `if result:` on the fetched row
Found(result) == result # {}

\* mutant: threads.create() is called before the lookup, so a hit still
\* creates a remote conversation
get_or_create_thread_id_Eager(table, remote, channel_id, createOk) ==
    LET result == SelectRows(table, channel_id)
        fresh  == Len(remote) + 1
    IN  IF ~createOk
        THEN [raised |-> TRUE, thread_id |-> NoThread,
              table |-> table, remote |-> remote, created |-> 1]
        ELSE IF Found(result)
        THEN [raised |-> FALSE,
              thread_id |-> (CHOOSE r \in result : TRUE).openai_thread_id,
              table |-> table, remote |-> Append(remote, <<>>), created |-> 1]
        ELSE [raised |-> FALSE, thread_id |-> fresh,
              table |-> table \cup {[discord_channel_id |-> channel_id,
                                     openai_thread_id |-> fresh]},
              remote |-> Append(remote, <<>>), created |-> 1]

\* The whole function: its return value, the table and the remote threads
\* afterwards, and whether threads.create() was called.  threads.create()
\* may fail (createOk = FALSE); the exception then leaves the function.
get_or_create_thread_id(table, remote, channel_id, createOk) ==
    LET result == SelectRows(table, channel_id)
        fresh  == Len(remote) + 1
    IN  IF Found(result)
        THEN [raised |-> FALSE,
              thread_id |-> (CHOOSE r \in result : TRUE).openai_thread_id,
              table |-> table, remote |-> remote, created |-> 0]
        ELSE IF ~createOk
        THEN [raised |-> TRUE, thread_id |-> NoThread,
              table |-> table, remote |-> remote, created |-> 1]
        ELSE [raised |-> FALSE, thread_id |-> fresh,
              table |-> table \cup {[discord_channel_id |-> channel_id,
                                     openai_thread_id |-> fresh]},
              remote |-> Append(remote, <<>>), created |-> 1]

\* ---------------------------------------- poll_run_status_and_handle_response
\* mutant: the except clause misses the API client's errors
Handles_NotAPIError(e) == e \in Errors \ {"APIError"}

\* `except Exception as e:` around the whole body of the poller
Handles(e) == e \in Errors

\* `while retries <= max_retries:`
LoopGuard(r) == r <= max_retries

\* mutant: 'completed' left out of the list of terminal statuses
IsTerminal_NoCompleted(s) == s \in {"failed", "expired", "cancelled"}

\* `if run_status.status in ['completed', 'failed', 'expired', 'cancelled']`
IsTerminal(s) == s \in {"completed", "failed", "expired", "cancelled"}

\* mutant: requires_action is not recognised
RequiresAction_Never(s) == FALSE

\* `if run_status.status == 'requires_action'`
RequiresAction(s) == s = "requires_action"

\* mutant: only 'failed' is taken as a run that ended without a reply
EndedWithoutReply_OnlyFailed(s) == s = "failed"

\* `if run_status.status != 'completed'` after the loop
EndedWithoutReply(s) == s # "completed"

\* next((m for m in messages.data if m.role == 'assistant'), None)
LatestAssistant(data) ==
    LET idx == {i \in 1..Len(data) : data[i].role = "assistant"}
    IN  IF idx = {} THEN None ELSE Some(data[Min(idx)])

\* mutant: the str() of the missing message is returned as the text
ExtractText_NoneAsText(latest) ==
    IF latest = None THEN [raised |-> FALSE, value |-> Some("None")]
    ELSE IF Len(latest[1].content) = 0 THEN [raised |-> TRUE, value |-> None]
    ELSE [raised |-> FALSE, value |-> Some(latest[1].content[1])]

\* latest_response.content[0].text.value if latest_response else None
\* (content[0] of an empty content list raises IndexError)
ExtractText(latest) ==
    IF latest = None THEN [raised |-> FALSE, value |-> None]
    ELSE IF Len(latest[1].content) = 0 THEN [raised |-> TRUE, value |-> None]
    ELSE [raised |-> FALSE, value |-> Some(latest[1].content[1])]

\* `if response:` in on_message: None and the empty string are falsy
Truthy(r) == r # None /\ r[1] # ""

\* mutant: the first sleep is longer than the ones after it
SleepInterval_Shrinking(n) == IF n = 0 THEN SLEEP_SECONDS + 1 ELSE SLEEP_SECONDS

\* `await asyncio.sleep(1)`: the seconds slept after n earlier sleeps
SleepInterval(n) == SLEEP_SECONDS

\* the statuses a retrieve call may return after the previous one
NextStatuses(prev) ==
    IF prev = "in_progress" THEN Statuses \ {"queued"} ELSE Statuses

\* ------------------------------------------------- how a handler ends
\* on_message gets r from the poller and replies when r is truthy
Respond(m, r) ==
    /\ response' = [response EXCEPT ![m] = r]
    /\ IF Truthy(r)
       THEN /\ pc' = [pc EXCEPT ![m] = "reply"]
            /\ UNCHANGED outcome
       ELSE /\ pc' = [pc EXCEPT ![m] = "done"]
            /\ outcome' = [outcome EXCEPT ![m] = "returned"]

\* the poller returns r from inside its try block
Return(m, r) == Respond(m, r) /\ UNCHANGED fault

\* the poller keeps running: no return, no exception
Continue(m, at) ==
    /\ pc' = [pc EXCEPT ![m] = at]
    /\ UNCHANGED <<response, fault, outcome>>

\* on_message returns without having called the poller
Finish(m) ==
    /\ pc' = [pc EXCEPT ![m] = "done"]
    /\ outcome' = [outcome EXCEPT ![m] = "returned"]
    /\ UNCHANGED <<response, fault>>

\* call op raises and the exception leaves on_message
Raise(m, op) ==
    /\ pc' = [pc EXCEPT ![m] = "done"]
    /\ outcome' = [outcome EXCEPT ![m] = "raised"]
    /\ fault' = [fault EXCEPT ![m] = op]
    /\ UNCHANGED response

\* mutant: the except clause logs the error and raises it again
PollerError_Reraise(m, e, op) == Raise(m, op)

\* call op raises e inside the poller's try block: the except clause logs it
\* and returns None; what it does not handle leaves on_message
PollerError(m, e, op) ==
    IF Handles(e)
    THEN /\ Respond(m, None)
         /\ fault' = [fault EXCEPT ![m] = op]
    ELSE Raise(m, op)

\* ---------------------------------------------------------------- events
\* discord.py dispatches a message event: the on_message coroutine for it is
\* scheduled on the event loop.  Messages are numbered in dispatch order;
\* channel names are interchangeable, so message m uses one of the first m.
dispatch(m) ==
    /\ pc[m] = "undelivered"
    /\ IF m = 1 THEN TRUE ELSE pc[m - 1] # "undelivered"
    /\ \E e \in Events :
        /\ e.channel <= m
        /\ inbox' = [inbox EXCEPT ![m] = Some(e)]
    /\ pc' = [pc EXCEPT ![m] = "dispatched"]
    /\ UNCHANGED <<thread_mapping, threads, channel, thread_id, retries,
                   run_status, seen, calls, sleeps, response, fault, outcome,
                   sent, interval, hc, vm>>

\* ------------------------------------------------------------- on_message
\* From the start of the handler up to its first await (typing()), or to its
\* end when it returns earlier.  The event is taken off the inbox.
on_message(m) ==
    /\ pc[m] = "dispatched"
    /\ \E createOk, launchOk \in BOOLEAN :
        LET message == inbox[m][1]
            is_dm == message.is_dm
            mentioned == message.mentioned
            user_role == get_user_role(message.author)
            goc == get_or_create_thread_id(thread_mapping, threads,
                                           message.channel, createOk)
        IN  IF message.bot \/ message.empty
               \/ ~Authorised(is_dm, mentioned, user_role)
            THEN \* "Ignoring bot message", "Ignoring empty message",
                 \* "Ignoring unauthorized message"
                 /\ Finish(m)
                 /\ UNCHANGED <<thread_mapping, threads, channel, thread_id,
                                calls>>
            ELSE /\ channel' = [channel EXCEPT ![m] = message.channel]
                 /\ thread_mapping' = goc.table
                 /\ threads' = goc.remote
                 /\ thread_id' = [thread_id EXCEPT ![m] = goc.thread_id]
                 /\ IF goc.raised
                    THEN /\ Raise(m, "threads.create")
                         /\ calls' = [calls EXCEPT ![m].threads_create = goc.created]
                    ELSE IF ~should_respond(is_dm, mentioned, user_role)
                    THEN \* "Conditions for generating response not met"
                         /\ Finish(m)
                         /\ calls' = [calls EXCEPT ![m].threads_create = goc.created]
                    ELSE \* poller: runs.create, then `async with typing()`
                         /\ calls' = [calls EXCEPT ![m].threads_create = goc.created,
                                                   ![m].runs_create = @ + 1]
                         /\ IF launchOk
                            THEN Continue(m, "typing")
                            ELSE PollerError(m, "APIError", "runs.create")
    /\ inbox' = [inbox EXCEPT ![m] = None]
    /\ UNCHANGED <<retries, run_status, seen, sleeps, sent, interval, hc, vm>>

\* mutant: the poll loop runs under a lock the handlers take in turn, so a
\* handler enters it only when every earlier handler has ended
typing_Serial(m) ==
    /\ pc[m] = "typing"
    /\ \A k \in Msgs : k < m => pc[k] = "done"
    /\ \E ok \in BOOLEAN :
        IF ~ok THEN PollerError(m, "HTTPException", "typing")
        ELSE IF LoopGuard(retries[m])
        THEN Continue(m, "poll")
        ELSE PollerError(m, "UnboundLocalError", "while")
    /\ UNCHANGED <<thread_mapping, threads, inbox, channel, thread_id,
                   retries, run_status, seen, calls, sleeps, sent, interval, hc, vm>>

\* `async with message.channel.typing():` then the first test of the loop
\* condition.  Leaving the loop before any poll leaves run_status unbound.
typing(m) ==
    /\ pc[m] = "typing"
    /\ \E ok \in BOOLEAN :
        IF ~ok THEN PollerError(m, "HTTPException", "typing")
        ELSE IF LoopGuard(retries[m])
        THEN Continue(m, "poll")
        ELSE PollerError(m, "UnboundLocalError", "while")
    /\ UNCHANGED <<thread_mapping, threads, inbox, channel, thread_id,
                   retries, run_status, seen, calls, sleeps, sent, interval, hc, vm>>

\* One pass of the loop body from runs.retrieve up to `await asyncio.sleep(1)`
\* or to the return of the poller.  The remote API decides the status s; a
\* run that completes may have put one assistant message on the thread.
retrieve(m) ==
    /\ pc[m] = "poll"
    /\ LET t == thread_id[m]
           polled == [calls EXCEPT ![m].retrieve = Bump(@)]
       IN  \/ \* runs.retrieve raises
              /\ calls' = polled
              /\ PollerError(m, "APIError", "runs.retrieve")
              /\ UNCHANGED <<threads, run_status, seen>>
           \/ \E s \in NextStatuses(run_status[m]) :
              /\ run_status' = [run_status EXCEPT ![m] = s]
              /\ seen' = [seen EXCEPT ![m] =
                             IF Len(@) < MaxPolls THEN Append(@, s) ELSE @]
              /\ IF IsTerminal(s)
                 THEN \* break
                      \E produced \in IF s = "completed"
                                      THEN {None} \cup {Some(c) : c \in Contents}
                                      ELSE {None} :
                        LET data == IF produced = None THEN threads[t]
                                    ELSE <<[role |-> "assistant",
                                            content |-> produced[1],
                                            run |-> m]>> \o threads[t]
                            got == ExtractText(LatestAssistant(data))
                        IN  /\ threads' = [threads EXCEPT ![t] = data]
                            /\ IF EndedWithoutReply(s)
                               THEN /\ calls' = polled
                                    /\ Return(m, None)
                               ELSE /\ calls' = [polled EXCEPT ![m].list = @ + 1]
                                    /\ \/ PollerError(m, "APIError", "messages.list")
                                       \/ IF got.raised
                                          THEN PollerError(m, "IndexError", "content[0]")
                                          ELSE Return(m, got.value)
                 ELSE IF RequiresAction(s)
                 THEN /\ calls' = [polled EXCEPT ![m].cancel = @ + 1]
                      /\ \/ Return(m, None)
                         \/ PollerError(m, "APIError", "runs.cancel")
                      /\ UNCHANGED threads
                 ELSE /\ calls' = polled
                      /\ Continue(m, "sleep")
                      /\ UNCHANGED threads
    /\ UNCHANGED <<thread_mapping, inbox, channel, thread_id, retries,
                   sleeps, sent, interval, hc, vm>>

\* mutant: every pass of the loop launches the run again
sleep_Relaunch(m) ==
    /\ pc[m] = "sleep"
    /\ sleeps' = [sleeps EXCEPT ![m] = Bump(@)]
    /\ interval' = [interval EXCEPT ![m] = SleepInterval(sleeps[m])]
    /\ calls' = [calls EXCEPT ![m].runs_create = Bump(@)]
    /\ IF LoopGuard(retries[m])
       THEN Continue(m, "poll")
       ELSE Return(m, None)
    /\ UNCHANGED <<thread_mapping, threads, inbox, channel, thread_id,
                   retries, run_status, seen, sent, hc, vm>>

\* asyncio.sleep(1) is over; the loop condition is tested again.  When it
\* fails the code after the loop sees a non-terminal status and returns None.
sleep(m) ==
    /\ pc[m] = "sleep"
    /\ sleeps' = [sleeps EXCEPT ![m] = Bump(@)]
    /\ interval' = [interval EXCEPT ![m] = SleepInterval(sleeps[m])]
    /\ IF LoopGuard(retries[m])
       THEN Continue(m, "poll")
       ELSE Return(m, None)
    /\ UNCHANGED <<thread_mapping, threads, inbox, channel, thread_id,
                   retries, run_status, seen, calls, sent, hc, vm>>

\* await message.reply(response)
reply(m) ==
    /\ pc[m] = "reply"
    /\ pc' = [pc EXCEPT ![m] = "done"]
    /\ calls' = [calls EXCEPT ![m].reply = 1]
    /\ \E ok \in BOOLEAN :
        IF ok
        THEN /\ sent' = [sent EXCEPT ![m] = response[m]]
             /\ outcome' = [outcome EXCEPT ![m] = "returned"]
             /\ UNCHANGED fault
        ELSE /\ outcome' = [outcome EXCEPT ![m] = "raised"]
             /\ fault' = [fault EXCEPT ![m] = "reply"]
             /\ UNCHANGED sent
    /\ UNCHANGED <<thread_mapping, threads, inbox, channel, thread_id,
                   retries, run_status, seen, sleeps, response, interval, hc, vm>>

\* the steps of the handler of message m
Run(m) == on_message(m) \/ typing(m) \/ retrieve(m) \/ sleep(m) \/ reply(m)

Step(m) == dispatch(m) \/ Run(m)

Next == \E m \in Msgs : Step(m)

Spec == Init /\ [][Next]_vars

\* The event loop runs every coroutine that is ready: a delivered message is
\* handled, and a pending typing(), sleep or reply completes.
FairSpec == Spec /\ \A m \in Msgs : WF_vars(Run(m))

\* ------------------------------------------- two messages that are answered
\* the event is one on_message answers: not from a bot, not empty, past the
\* authorisation gate and with should_respond true
Responds(e) ==
    /\ ~e.bot
    /\ ~e.empty
    /\ Authorised(e.is_dm, e.mentioned, get_user_role(e.author))
    /\ should_respond(e.is_dm, e.mentioned, get_user_role(e.author))

\* discord.py dispatches an event on_message will answer: the author is no
\* bot, the content is not empty, the gate passes and should_respond holds
dispatch_answered(m) == dispatch(m) /\ Responds(inbox'[m][1])

ConcurrentNext == \E m \in Msgs : dispatch_answered(m) \/ Run(m)

\* the handlers of messages that are all answered, each run by the event loop
\* whenever it is ready
ConcurrentSpec ==
    Init /\ [][ConcurrentNext]_vars /\ \A m \in Msgs : WF_vars(Run(m))

\* ==================================================================
\* src/healthcheck/hcping.py: the script that pings a health-check URL.
\* It is one sequential process; hc is a record of its position (pc), its
\* configuration, the locals of http_ping and what it has done so far.
\* ==================================================================
default_retries == 3       \* setup: default_retries
INITIAL_BACKOFF == 2       \* http_ping: backoff_time = 2
BACKOFF_NUM     == 3       \* backoff_time *= 1.5, as the fraction 3/2
BACKOFF_DEN     == 2

Digit == {"0", "1", "2", "3", "4", "5", "6", "7", "8", "9"}

DigitValue(c) ==
    CASE c = "0" -> 0 [] c = "1" -> 1 [] c = "2" -> 2 [] c = "3" -> 3
      [] c = "4" -> 4 [] c = "5" -> 5 [] c = "6" -> 6 [] c = "7" -> 7
      [] c = "8" -> 8 [] c = "9" -> 9

DigitText(d) == CHOOSE c \in Digit : DigitValue(c) = d

\* the value of a sequence of decimal digits
RECURSIVE DigitsValue(_)
DigitsValue(t) ==
    IF Len(t) = 0 THEN 0
    ELSE 10 * DigitsValue(SubSeq(t, 1, Len(t) - 1)) + DigitValue(t[Len(t)])

\* int(text): an optional sign and at least one digit, else ValueError.
\* A text is a sequence of characters.
int(t) ==
    LET signed == Len(t) > 0 /\ t[1] \in {"-", "+"}
        body   == IF signed THEN Tail(t) ELSE t
        ok     == Len(body) > 0 /\ \A k \in 1..Len(body) : body[k] \in Digit
    IN  IF ~ok THEN [raised |-> TRUE, value |-> 0]
        ELSE [raised |-> FALSE,
              value |-> IF signed /\ t[1] = "-" THEN 0 - DigitsValue(body)
                        ELSE DigitsValue(body)]

\* the decimal text of a natural number, and of an integer
RECURSIVE NatText(_)
NatText(n) ==
    IF n < 10 THEN <<DigitText(n)>>
    ELSE Append(NatText(n \div 10), DigitText(n % 10))

IntText(n) == IF n < 0 THEN <<"-">> \o NatText(0 - n) ELSE NatText(n)

\* what config.ini may hold as Retries: nothing, texts that are no integer,
\* and the integers from -1 to MaxRetries
RetriesTexts ==
    {<<>>, <<"x">>, <<"2", "x">>} \cup {IntText(n) : n \in (0 - 1)..MaxRetries}

\* config.ini: are APIKey and PingURL non-empty, is the URL formed from them
\* well-formed, and the text of Retries
Configs == [APIKey : BOOLEAN, PingURL : BOOLEAN, well_formed : BOOLEAN,
            Retries : RetriesTexts]

\* what one requests.get with raise_for_status can do
Results == {"ok", "http_error", "connection_error"}

\* the script as it starts with configuration c
Process(c) ==
    [pc |-> "setup", config |-> c, retries |-> 0, i |-> 0,
     backoff_time |-> <<0, 1>>, response |-> "unbound", requests |-> 0,
     succeeded |-> FALSE, slept |-> <<>>, error |-> "none", status |-> 0,
     completed |-> FALSE]

PingInit ==
    AssistantInit /\ hc \in {Process(c) : c \in Configs} /\ vm = NotRunning

\* exit(1), or an exception nothing catches: the interpreter ends with status 1
Exit(e) == [hc EXCEPT !.pc = "exit", !.status = 1, !.error = e]

\* setup(): validate APIKey and PingURL, convert Retries, validate the URL
setup ==
    /\ hc.pc = "setup"
    /\ LET c == hc.config
           parsed == int(c.Retries)
           n == IF c.Retries = <<>> THEN default_retries
                ELSE IF parsed.raised THEN default_retries
                ELSE parsed.value
       IN  hc' = IF ~c.APIKey \/ ~c.PingURL \/ ~c.well_formed
                 THEN Exit("SystemExit")
                 ELSE [hc EXCEPT !.pc = "http_ping", !.retries = n]
    /\ UNCHANGED <<assistant_vars, vm>>

\* 'Sending HTTP ping...', then http_ping up to the first pass of its loop:
\* range(retries) is empty when retries <= 0
http_ping ==
    /\ hc.pc = "http_ping"
    /\ hc' = [hc EXCEPT !.backoff_time = <<INITIAL_BACKOFF, 1>>,
                        !.i = 0,
                        !.pc = IF 0 < hc.retries THEN "attempt" ELSE "return"]
    /\ UNCHANGED <<assistant_vars, vm>>

\* One pass of the loop: requests.get and raise_for_status, then `break` or
\* the except clause up to time.sleep.  A connection error leaves `response`
\* as it was; the except clause reads response.status_code before sleeping.
attempt ==
    /\ hc.pc = "attempt"
    /\ \E result \in Results :
        LET bound == IF result = "connection_error" THEN hc.response
                     ELSE IF result = "ok" THEN "2xx" ELSE "error"
            tried == [hc EXCEPT !.requests = @ + 1, !.response = bound]
        IN  hc' = IF result = "ok"
                  THEN [tried EXCEPT !.pc = "return", !.succeeded = TRUE]
                  ELSE IF hc.i = hc.retries - 1
                  THEN [tried EXCEPT !.pc = "exit", !.status = 1,
                                     !.error = "SystemExit"]
                  ELSE IF bound = "unbound"
                  THEN [tried EXCEPT !.pc = "exit", !.status = 1,
                                     !.error = "UnboundLocalError"]
                  ELSE [tried EXCEPT !.pc = "sleep"]
    /\ UNCHANGED <<assistant_vars, vm>>

\* time.sleep(backoff_time) is over; backoff_time *= 1.5; the next pass
time_sleep ==
    /\ hc.pc = "sleep"
    /\ hc' = [hc EXCEPT !.slept = Append(@, hc.backoff_time),
                        !.backoff_time = <<@[1] * BACKOFF_NUM, @[2] * BACKOFF_DEN>>,
                        !.i = @ + 1,
                        !.pc = IF hc.i + 1 < hc.retries THEN "attempt" ELSE "return"]
    /\ UNCHANGED <<assistant_vars, vm>>

\* http_ping has returned: 'Completed successfully', and the script ends
completed ==
    /\ hc.pc = "return"
    /\ hc' = [hc EXCEPT !.pc = "exit", !.completed = TRUE]
    /\ UNCHANGED <<assistant_vars, vm>>

PingNext == setup \/ http_ping \/ attempt \/ time_sleep \/ completed

PingSpec == PingInit /\ [][PingNext]_vars

\* ==================================================================
\* src/vault_migrate.py: the script that turns the rows of a workbook into
\* vault commands and runs them after a confirmation.  vm is a record of its
\* position (pc), the rows read, the two command lists, the answer given
\* and the commands it has passed to subprocess.run, in order.
\* ==================================================================
\* str.lower() of one character, and of a text (a sequence of characters)
LowerChar(c) ==
    CASE c = "Y" -> "y" [] c = "E" -> "e" [] c = "S" -> "s"
      [] c = "N" -> "n" [] c = "O" -> "o" [] c = "U" -> "u" [] c = "L" -> "l"
      [] OTHER -> c

lower(t) == [k \in 1..Len(t) |-> LowerChar(t[k])]

\* what the api_key cell of a row may hold: None or a text
ApiKeys == {None, Some(<<"n", "u", "l", "l">>), Some(<<"N", "U", "L", "L">>),
            Some(<<"k">>)}

\* a data row: has it the 13 cells the unpacking needs, is its description
\* cell non-empty, and its api_key cell
Rows == [cells : BOOLEAN, description : BOOLEAN, api_key : ApiKeys]

\* the workbooks: up to MaxRows data rows
Workbooks == UNION {[1..n -> Rows] : n \in 0..MaxRows}

\* the answers that may be typed at the confirmation prompt
Answers == {<<"y", "e", "s">>, <<"Y", "E", "S">>, <<"Y", "e", "s">>,
            <<"y">>, <<"n", "o">>, <<>>, <<" ", "y", "e", "s">>}

\* what subprocess.run(command, check=True) can do
RunResults == {"ok", "CalledProcessError", "FileNotFoundError"}

\* `if api_key and api_key.lower() != "null"`
HasApiKey(api_key) ==
    api_key # None /\ api_key[1] # <<>> /\ lower(api_key[1]) # <<"n", "u", "l", "l">>

\* the kv put command of row r: the account pair, and the api_key pair if any
PutCommand(rows, r) ==
    [kind |-> "put", row |-> r,
     kv_pairs |-> IF HasApiKey(rows[r].api_key)
                  THEN <<"user_account", "api_key">> ELSE <<"user_account">>]

MetadataCommand(rows, r) == [kind |-> "metadata put", row |-> r]

\* the list `commands` after the first n rows
RECURSIVE Commands(_, _)
Commands(rows, n) ==
    IF n = 0 THEN <<>> ELSE Append(Commands(rows, n - 1), PutCommand(rows, n))

\* the list `metadata_commands` after the first n rows
RECURSIVE MetadataCommands(_, _)
MetadataCommands(rows, n) ==
    IF n = 0 THEN <<>>
    ELSE IF rows[n].description
    THEN Append(MetadataCommands(rows, n - 1), MetadataCommand(rows, n))
    ELSE MetadataCommands(rows, n - 1)

\* mutant: an answer that begins with y is taken as yes
Confirmed_AnyY(confirmation) ==
    Len(confirmation) > 0 /\ lower(confirmation)[1] = "y"

\* `if confirmation.lower() == 'yes'`
Confirmed(confirmation) == lower(confirmation) = <<"y", "e", "s">>

\* the script as it starts on a workbook
Migration(rows) ==
    [pc |-> "prepare", rows |-> rows, commands |-> <<>>,
     metadata_commands |-> <<>>, confirmation |-> None, i |-> 0, j |-> 0,
     ran |-> <<>>, failed |-> FALSE, error |-> "none"]

MigrateInit ==
    /\ AssistantInit
    /\ hc = NotRunning
    /\ vm \in {Migration(rows) : rows \in Workbooks}

\* where the script is once i commands and j metadata commands have run
After(v, i, j) ==
    IF i < Len(v.commands) THEN "commands"
    ELSE IF j < Len(v.metadata_commands) THEN "metadata"
    ELSE "exit"

\* the prompts, the workbook and the loop over its rows: a row that does not
\* unpack into 13 names raises ValueError and the script ends there
prepare ==
    /\ vm.pc = "prepare"
    /\ LET rows == vm.rows
       IN  vm' = IF \E r \in 1..Len(rows) : ~rows[r].cells
                 THEN [vm EXCEPT !.pc = "exit", !.error = "ValueError"]
                 ELSE [vm EXCEPT !.pc = "confirm",
                                 !.commands = Commands(rows, Len(rows)),
                                 !.metadata_commands =
                                     MetadataCommands(rows, Len(rows))]
    /\ UNCHANGED <<assistant_vars, hc>>

\* the commands are printed and the confirmation is read
confirm ==
    /\ vm.pc = "confirm"
    /\ \E answer \in Answers :
        vm' = [vm EXCEPT !.confirmation = Some(answer),
                         !.pc = IF Confirmed(answer) THEN After(vm, 0, 0)
                                ELSE "exit"]
    /\ UNCHANGED <<assistant_vars, hc>>

\* subprocess.run of the next kv put command; check=True raises on failure
run_command ==
    /\ vm.pc = "commands"
    /\ \E result \in RunResults :
        vm' = IF result = "ok"
              THEN [vm EXCEPT !.ran = Append(@, vm.commands[vm.i + 1]),
                              !.i = @ + 1,
                              !.pc = After(vm, vm.i + 1, vm.j)]
              ELSE [vm EXCEPT !.ran = Append(@, vm.commands[vm.i + 1]),
                              !.failed = TRUE, !.error = result,
                              !.pc = "exit"]
    /\ UNCHANGED <<assistant_vars, hc>>

\* subprocess.run of the next kv metadata put command
run_metadata_command ==
    /\ vm.pc = "metadata"
    /\ \E result \in RunResults :
        vm' = IF result = "ok"
              THEN [vm EXCEPT !.ran = Append(@, vm.metadata_commands[vm.j + 1]),
                              !.j = @ + 1,
                              !.pc = After(vm, vm.i, vm.j + 1)]
              ELSE [vm EXCEPT !.ran = Append(@, vm.metadata_commands[vm.j + 1]),
                              !.failed = TRUE, !.error = result,
                              !.pc = "exit"]
    /\ UNCHANGED <<assistant_vars, hc>>

MigrateNext == prepare \/ confirm \/ run_command \/ run_metadata_command

MigrateSpec == MigrateInit /\ [][MigrateNext]_vars

\* ==================================================================
\* Claims
\* ==================================================================

\* every status the retrieve calls of m have returned is in_progress
OnlyInProgress(m) ==
    /\ calls[m].retrieve > 0
    /\ run_status[m] = "in_progress"
    /\ \A i \in 1..Len(seen[m]) : seen[m][i] = "in_progress"

\* the poller of m has returned to on_message
PollerReturned(m) == calls[m].runs_create = 1 /\ pc[m] \in {"reply", "done"}

\* the thread the run of m was launched on, as the remote API holds it
Thread(m) == threads[thread_id[m]]

\* the segments of a content list joined with newlines
RECURSIVE JoinLines(_)
JoinLines(content) ==
    IF Len(content) = 1 THEN content[1]
    ELSE content[1] \o "\n" \o JoinLines(Tail(content))

\* the status sequence of the second testable property of the spec
QueuedToCompleted == <<"queued", "in_progress", "in_progress", "completed">>

\* the first four retrieve calls of m returned that sequence
SawQueuedToCompleted(m) ==
    /\ Len(seen[m]) >= 4
    /\ SubSeq(seen[m], 1, 4) = QueuedToCompleted

\* get_or_create_thread_id was called for m and returned
GotThread(m) == thread_id[m] # NoThread

\* C1: a run whose status stays in_progress is, after some time, cancelled
\* exactly once and the poller returns no reply (unless the status changes or
\* a remote call fails first).
C1_TimeoutCancelsOnce ==
    \A m \in Msgs :
        OnlyInProgress(m) ~>
            \/ ~OnlyInProgress(m)
            \/ fault[m] # "none"
            \/ PollerReturned(m) /\ calls[m].cancel = 1 /\ response[m] = None

\* C2: when a run has been launched for a message, the message is on the
\* channel's thread as a user message.
C2_AppendBeforeRun ==
    \A m \in Msgs :
        calls[m].runs_create = 1 =>
            \E i \in 1..Len(Thread(m)) : Thread(m)[i].role = "user"

\* C3 as claimed: the poller that saw queued, in_progress, in_progress,
\* completed has returned after exactly 3 polls, without a cancel.
C3_ThreePolls ==
    \A m \in Msgs :
        SawQueuedToCompleted(m) /\ PollerReturned(m) =>
            calls[m].retrieve = 3 /\ calls[m].cancel = 0

\* C3 amended: the poller whose retrieve calls returned queued, in_progress,
\* in_progress, completed stops polling there: it has polled exactly 4 times
\* and slept 3 times, never cancelled, and went on to fetch the message list.
C3_FourPolls ==
    \A m \in Msgs :
        SawQueuedToCompleted(m) =>
            /\ PollerReturned(m)
            /\ run_status[m] = "completed"
            /\ calls[m].retrieve = 4
            /\ sleeps[m] = 3
            /\ calls[m].cancel = 0
            /\ calls[m].list = 1

C3_Witness ==
    \E m \in Msgs : SawQueuedToCompleted(m) /\ PollerReturned(m)

\* C4: a poll that reports requires_action is the last one: the run is
\* cancelled exactly once and the poller has returned None at once, with no
\* sleep after that poll, no message list fetched and no reply.
C4_RequiresActionCancels ==
    \A m \in Msgs :
        run_status[m] = "requires_action" =>
            /\ pc[m] = "done"
            /\ calls[m].cancel = 1
            /\ response[m] = None
            /\ calls[m].list = 0
            /\ calls[m].reply = 0
            /\ calls[m].retrieve <= MaxPolls => sleeps[m] = calls[m].retrieve - 1
            /\ calls[m].retrieve <= MaxPolls =>
                   seen[m][calls[m].retrieve] = "requires_action"

C4_Witness ==
    \E m \in Msgs :
        /\ run_status[m] = "requires_action"
        /\ calls[m].retrieve = 2
        /\ calls[m].cancel = 1

\* C5: the text the poller returns is all text segments of the latest
\* assistant message, in order, joined with newlines.
C5_JoinsSegments ==
    [][\A m \in Msgs :
          (/\ pc[m] = "poll"
           /\ PollerReturned(m)'
           /\ calls'[m].list = 1
           /\ fault'[m] = "none"
           /\ LatestAssistant(Thread(m)') # None)
          => response'[m] =
                Some(JoinLines(LatestAssistant(Thread(m)')[1].content))]_vars

\* C6: a run seen to end as failed, expired, cancelled or requires_action
\* gives silence: the poller has returned None, on_message has returned
\* without an exception, and no reply was sent.
C6_FailureIsSilent ==
    \A m \in Msgs :
        run_status[m] \in {"failed", "expired", "cancelled", "requires_action"} =>
            /\ pc[m] = "done"
            /\ outcome[m] = "returned"
            /\ response[m] = None
            /\ calls[m].reply = 0
            /\ sent[m] = None

\* a failed run on a thread that holds an assistant message of an earlier turn
C6_Witness ==
    \E m \in Msgs :
        /\ run_status[m] \in {"failed", "expired", "cancelled"}
        /\ LatestAssistant(Thread(m)) # None
        /\ Truthy(ExtractText(LatestAssistant(Thread(m))).value)

\* C7: when runs.create raises, on_message returns without an exception and
\* without a reply, and nothing was polled, cancelled or listed.
C7_LaunchFailureIsSilent ==
    \A m \in Msgs :
        fault[m] = "runs.create" =>
            /\ pc[m] = "done"
            /\ outcome[m] = "returned"
            /\ response[m] = None
            /\ calls[m].retrieve = 0
            /\ calls[m].cancel = 0
            /\ calls[m].list = 0
            /\ calls[m].reply = 0
            /\ sent[m] = None

C7_Witness ==
    \E m \in Msgs : fault[m] = "runs.create" /\ calls[m].runs_create = 1

\* the messages of channel c for which get_or_create_thread_id returned
Returned(c) == {m \in Msgs : channel[m] = c /\ GotThread(m)}

\* C8: the calls of get_or_create_thread_id that returned for one channel all
\* returned the same handle, and exactly one of them created a conversation.
C8_SameHandleOneCreate ==
    \A c \in Channels :
        Returned(c) # {} =>
            /\ \A m1, m2 \in Returned(c) : thread_id[m1] = thread_id[m2]
            /\ Cardinality({m \in Returned(c) : calls[m].threads_create = 1}) = 1

C8_Witness ==
    \E c \in Channels : Cardinality(Returned(c)) >= 2

\* C9: the mapping table holds at most one row per channel.
C9_OneHandlePerChannel ==
    \A r1, r2 \in thread_mapping :
        r1.discord_channel_id = r2.discord_channel_id => r1 = r2

\* two messages of one channel are both inside the poll loop
C9_Witness ==
    \E m1, m2 \in Msgs :
        /\ m1 # m2
        /\ channel[m1] = channel[m2]
        /\ pc[m1] = "sleep"
        /\ pc[m2] = "sleep"
        /\ thread_mapping # {}

\* C10: a call of get_or_create_thread_id for a channel that has a mapping
\* returns the stored handle, creates no remote conversation and leaves the
\* table as it was.
C10_HitHasNoSideEffect ==
    [][\A m \in Msgs :
          (/\ pc[m] = "dispatched"
           /\ channel'[m] # 0
           /\ SelectRows(thread_mapping, channel'[m]) # {})
          => /\ thread_id'[m] \in {r.openai_thread_id :
                                     r \in SelectRows(thread_mapping, channel'[m])}
             /\ thread_mapping' = thread_mapping
             /\ threads' = threads
             /\ calls'[m].threads_create = 0]_vars

\* a handler found the mapping an earlier message had created
C10_Witness ==
    \E m \in Msgs :
        /\ GotThread(m)
        /\ calls[m].threads_create = 0
        /\ \E k \in Msgs : k # m /\ calls[k].threads_create = 1
                           /\ thread_id[k] = thread_id[m]

\* on_message is run for the event of m in this step
Handled(m) == pc[m] = "dispatched" /\ pc'[m] # "dispatched"

C12_NoAssistantMessage ==
    \A m \in Msgs :
        (/\ run_status[m] = "completed"
         /\ calls[m].list = 1
         /\ fault[m] = "none"
         /\ LatestAssistant(Thread(m)) = None)
        => /\ pc[m] = "done"
           /\ outcome[m] = "returned"
           /\ response[m] = None
           /\ calls[m].reply = 0
           /\ sent[m] = None

C12_Witness ==
    \E m \in Msgs :
        /\ run_status[m] = "completed"
        /\ calls[m].list = 1
        /\ fault[m] = "none"
        /\ LatestAssistant(Thread(m)) = None
        /\ outcome[m] = "returned"

\* the code configures no cap: the fixed interval is the least cap that fits
SleepCap == SLEEP_SECONDS

\* C13: every sleep between two polls of a run lasts at least as long as the
\* sleep before it and at most the cap.
C13_IntervalsBounded ==
    [][\A m \in Msgs :
          (pc[m] = "sleep" /\ pc'[m] # "sleep") =>
              /\ interval'[m] > 0
              /\ interval'[m] >= interval[m]
              /\ interval'[m] <= SleepCap]_vars

\* a run polled and slept at least three times
C13_Witness ==
    \E m \in Msgs : sleeps[m] >= 3 /\ interval[m] = SLEEP_SECONDS

\* C14: when runs.cancel raises, the poller has returned None to on_message,
\* which returned without an exception and without a reply; the cancel was
\* issued once and nothing was polled or listed after it.
C14_CancelFailureIsFinal ==
    \A m \in Msgs :
        fault[m] = "runs.cancel" =>
            /\ pc[m] = "done"
            /\ outcome[m] = "returned"
            /\ response[m] = None
            /\ calls[m].cancel = 1
            /\ run_status[m] = "requires_action"
            /\ calls[m].list = 0
            /\ calls[m].reply = 0
            /\ sent[m] = None

C14_Witness ==
    \E m \in Msgs :
        /\ fault[m] = "runs.cancel"
        /\ calls[m].cancel = 1
        /\ calls[m].retrieve >= 2

\* where a handler that has started and not ended can be
InFlight == {"dispatched", "typing", "poll", "sleep", "reply"}

\* C15: no handler waits forever at one place, whatever the other handler
\* does: a delivered message is handled, a poll loop polls again after every
\* sleep, and a handler whose poll reported a terminal status sends its reply
\* and ends, also while the other handler polls a run that never ends.
C15_NoStall ==
    \A m \in Msgs : \A p \in InFlight : []<>(pc[m] # p)

\* the second message was answered while the first, delivered before it, is
\* still polling a run that has reported in_progress more than MaxPolls times
C15_Witness ==
    \E a, b \in Msgs :
        /\ a < b
        /\ pc[a] \in {"poll", "sleep"}
        /\ OnlyInProgress(a)
        /\ calls[a].retrieve > MaxPolls
        /\ run_status[b] = "completed"
        /\ sent[b] # None
        /\ pc[b] = "done"

\* the event fails the authorisation gate: a DM whose author role is neither
\* admin nor dm_user, or a channel message without a mention of the bot or
\* from an author of unknown role
FailsGate(e) ==
    IF e.is_dm
    THEN get_user_role(e.author) \notin {"admin", "dm_user"}
    ELSE ~e.mentioned \/ get_user_role(e.author) = "unknown"

\* C16: on_message run for a message of a bot, an empty message or one that
\* fails the gate ends at once: no remote call, no row added to the mapping
\* table, no remote thread created, nothing polled and no reply pending or
\* sent.
C16_IgnoredDoesNothing ==
    [][\A m \in Msgs :
          (Handled(m) /\ (\/ inbox[m][1].bot
                          \/ inbox[m][1].empty
                          \/ FailsGate(inbox[m][1])))
          => /\ calls'[m] = NoCalls
             /\ thread_mapping' = thread_mapping
             /\ threads' = threads
             /\ thread_id'[m] = NoThread
             /\ pc'[m] = "done"
             /\ outcome'[m] = "returned"
             /\ response'[m] = None
             /\ sent'[m] = None]_vars

\* a message was ignored after an earlier one had been given a thread
C16_Witness ==
    \E m, k \in Msgs :
        /\ k < m
        /\ calls[k].runs_create = 1
        /\ pc[m] = "done"
        /\ channel[m] = 0
        /\ calls[m] = NoCalls

\* the event passes the authorisation gate as the claim words it
PassesGate(e) ==
    \/ e.is_dm /\ get_user_role(e.author) \in {"admin", "dm_user"}
    \/ ~e.is_dm /\ e.mentioned /\ get_user_role(e.author) # "unknown"

\* C17: on_message run for a message that is not from a bot, is not empty
\* and passes the gate launches a run on the thread of the message's
\* channel, once the thread lookup has returned.
C17_GatePassLaunches ==
    [][\A m \in Msgs :
          (/\ Handled(m)
           /\ ~inbox[m][1].bot
           /\ ~inbox[m][1].empty
           /\ PassesGate(inbox[m][1])
           /\ thread_id'[m] # NoThread)
          => calls'[m].runs_create = 1]_vars

\* C18: a reply that was sent is the text of an assistant message the run of
\* that very message put on the thread.
C18_ReplyFromOwnRun ==
    \A m \in Msgs :
        sent[m] # None =>
            \E i \in 1..Len(Thread(m)) :
                /\ Thread(m)[i].role = "assistant"
                /\ Thread(m)[i].run = m
                /\ Thread(m)[i].content # <<>>
                /\ sent[m] \in {Some(Thread(m)[i].content[1]),
                                Some(JoinLines(Thread(m)[i].content))}

\* the pass of http_ping's loop that is made in this step
Attempted == hc.pc = "attempt" /\ hc'.pc # "attempt"

\* C19: http_ping makes at most `retries` requests; a pass whose request
\* succeeds ends the loop; a failed pass that is not the last one goes on to
\* sleep for the current backoff; and a pass ends the script with status 1
\* exactly when it was the last of `retries` passes that all failed.
C19_PingRetries ==
    [][/\ hc'.requests <= (IF hc'.retries > 0 THEN hc'.retries ELSE 0)
       /\ Attempted =>
            /\ hc'.succeeded => hc'.pc = "return"
            /\ (~hc'.succeeded /\ hc.i < hc.retries - 1) =>
                   hc'.pc = "sleep" /\ hc'.backoff_time = hc.backoff_time
            /\ (hc'.pc = "exit" /\ hc'.status = 1) <=>
                   (~hc'.succeeded /\ hc'.requests = hc.retries)]_vars

\* C20: 'Completed successfully' is logged only when a request succeeded.
C20_CompletedMeansPinged ==
    hc.pc # "off" => (hc.completed => hc.succeeded)

\* the rows of the workbook that have a description, in row order
RECURSIVE Described(_, _)
Described(rows, n) ==
    IF n = 0 THEN <<>>
    ELSE IF rows[n].description THEN Append(Described(rows, n - 1), n)
    ELSE Described(rows, n - 1)

\* the order the claim gives: a kv put for every row in row order, then a
\* metadata put for every row with a description in row order
ExpectedOrder(rows) ==
    [r \in 1..Len(rows) |-> <<"put", r>>]
        \o [k \in 1..Len(Described(rows, Len(rows))) |->
               <<"metadata put", Described(rows, Len(rows))[k]>>]

\* C21: the script passes a command to subprocess.run only after an answer
\* that is 'yes' in some mix of cases; the commands it has run are the first
\* ones of the order "every kv put in row order, then every metadata put in
\* row order"; and once a command has failed no further command is run.
C21_ConfirmedOrderedStopOnFailure ==
    [][/\ vm'.ran # <<>> =>
            /\ vm'.confirmation # None
            /\ lower(vm'.confirmation[1]) = <<"y", "e", "s">>
       /\ Len(vm'.ran) <= Len(ExpectedOrder(vm'.rows))
       /\ \A k \in 1..Len(vm'.ran) :
            <<vm'.ran[k].kind, vm'.ran[k].row>> = ExpectedOrder(vm'.rows)[k]
       /\ vm.failed => vm'.ran = vm.ran /\ vm'.failed]_vars

\* after 'YES' both kv puts ran, then the first metadata put failed and the
\* second one was never run
C21_Witness ==
    /\ vm.pc = "exit"
    /\ vm.confirmation = Some(<<"Y", "E", "S">>)
    /\ Len(vm.commands) = 2
    /\ Len(vm.metadata_commands) = 2
    /\ Len(vm.ran) = 3
    /\ vm.failed

====
